---- MODULE Spec2Model ----
(***************************************************************************)
(* libq: fixed-point numbers fixed_point<T, n, f, e, op, up>.              *)
(*                                                                         *)
(* A fixed-point value is a stored integer of the host integer type T; it  *)
(* represents the real  stored * 2^-(f+e).  The model keeps one value,     *)
(* acc, and applies the library's constructors and operators to it; every  *)
(* step records its operands, its result and the policy events it fired    *)
(* in last.  The elementary functions and the look-up table builders run   *)
(* in fn, one loop iteration per step.                                     *)
(*                                                                         *)
(* Host integers keep their width: every conversion to an integer type     *)
(* wraps modulo 2^w.  The host integer family is scaled down to two ranks, *)
(* int (IntBits bits) and intmax_t (2*IntBits bits), so that TLC can       *)
(* enumerate the values.  A double is an exact dyadic rational m * 2^-k;   *)
(* within the model's range double arithmetic is exact.                    *)
(*                                                                         *)
(* The overflow and the underflow policy are modelled as recording the     *)
(* event and returning, so that the value the code goes on to compute is   *)
(* visible; under the exception policy an event ends the operation.        *)
(***************************************************************************)
EXTENDS Integers, FiniteSets, Sequences, TLC

VARIABLES acc, last, fn

vars == <<acc, last, fn>>

(***************************************************************************)
(* Bounds of the model.                                                    *)
(***************************************************************************)
\* width of int in bits; intmax_t has twice as many (scaled from 32 and 64)
IntBits == 4
\* integers given to the integer constructor and as integer operands: -MaxInt..MaxInt
MaxInt == 3
\* the arguments _n of hyperbolic_scale_with_repeated_iterations: 1..MaxScaleN
MaxScaleN == 15
\* the array lengths N of the chunked loop: 0..MaxLoopN; CHUNK_LENGTH: 1..MaxLoopN
MaxLoopN == 6
\* the lengths of the sequences of operations on one object: 0..MaxSteps
MaxSteps == 2

(***************************************************************************)
(* Host integer types and the language's integer conversions.              *)
(***************************************************************************)
Pow2(k) == 2^k

HostType(s, w) == [s |-> s, w |-> w]

IntMaxBits == 2 * IntBits

HostWidths == {IntBits, IntMaxBits}

HostTypes == {HostType(s, w) : s \in BOOLEAN, w \in HostWidths}

\* std::intmax_t and std::uintmax_t
IntMaxT == HostType(TRUE, IntMaxBits)

UIntMaxT == HostType(FALSE, IntMaxBits)

\* std::numeric_limits<T>::digits
Digits(t) == IF t.s THEN t.w - 1 ELSE t.w

TMin(t) == IF t.s THEN -Pow2(t.w - 1) ELSE 0

TMax(t) == Pow2(Digits(t)) - 1

\* static_cast<T>(v) of an integer v: the value modulo 2^w
Conv(t, v) ==
    IF t.s THEN ((v + Pow2(t.w - 1)) % Pow2(t.w)) - Pow2(t.w - 1)
           ELSE v % Pow2(t.w)

\* the usual arithmetic conversions of two operands of rank int or above
CommonType(t1, t2) ==
    IF t1.s = t2.s THEN HostType(t1.s, IF t1.w >= t2.w THEN t1.w ELSE t2.w)
    ELSE LET u == IF t1.s THEN t2 ELSE t1
             g == IF t1.s THEN t1 ELSE t2
         IN  IF u.w >= g.w THEN HostType(FALSE, u.w) ELSE HostType(TRUE, g.w)

\* v1 < v2 and v1 != v2 as the language compares a t1 with a t2
CLess(t1, v1, t2, v2) ==
    LET ct == CommonType(t1, t2) IN Conv(ct, v1) < Conv(ct, v2)

CNotEqual(t1, v1, t2, v2) ==
    LET ct == CommonType(t1, t2) IN Conv(ct, v1) # Conv(ct, v2)

\* v >> s: the arithmetic shift, floor(v / 2^s)
Shr(v, s) == v \div Pow2(s)

\* integer division as the language does it: the quotient truncated toward zero
CDiv(a, b) ==
    LET q == (IF a < 0 THEN -a ELSE a) \div (IF b < 0 THEN -b ELSE b)
    IN  IF (a < 0) = (b < 0) THEN q ELSE -q

\* boost::int_t<bits>::least (s) and boost::uint_t<bits>::least: the narrowest
\* host type of at least that many bits
LeastType(s, bits) ==
    HostType(s, IF bits <= IntBits THEN IntBits ELSE IntMaxBits)

(***************************************************************************)
(* Formats: fixed_point<T, n, f, e>.                                       *)
(***************************************************************************)
Fmt(s, w, n, f, e) == [s |-> s, w |-> w, n |-> n, f |-> f, e |-> e]

storage_type(F) == HostType(F.s, F.w)

number_of_significant_bits(F) == F.n + F.f

largest_stored_integer(F) == Pow2(number_of_significant_bits(F)) - 1

least_stored_integer(F) ==
    (IF F.s THEN 1 ELSE 0) * (-largest_stored_integer(F) - 1)

\* the type of largest_stored_integer
largest_type(F) == IF F.s THEN IntMaxT ELSE UIntMaxT

\* Q<n, f, e> with boost::int_t<n>::least for its storage
Q_without_sign_bit(n, f, e) == Fmt(TRUE, LeastType(TRUE, n).w, n - f, f, e)

\* Q<n, f, e> and UQ<n, f, e>: n significant bits, f of them fractional
Q(n, f, e) == Fmt(TRUE, LeastType(TRUE, n + 1).w, n - f, f, e)

UQ(n, f, e) == Fmt(FALSE, LeastType(FALSE, n).w, n - f, f, e)

Value(F, v) == [fmt |-> F, v |-> v]

\* the outcome of a step of the library: the stored integer and the events
Outcome(v, ovf, unf) == [v |-> v, ovf |-> ovf, unf |-> unf]

(***************************************************************************)
(* wrap                                                                    *)
(***************************************************************************)
\* wrap with the sign tests of _val left out of the two comparisons
wrap_unguarded(F, T, val) ==
    Outcome(Conv(storage_type(F), val),
            \/ CLess(T, val, IntMaxT, least_stored_integer(F))
            \/ CLess(largest_type(F), largest_stored_integer(F), T, val),
            FALSE)

wrap(F, T, val) ==
    Outcome(Conv(storage_type(F), val),
            \/ val < 0 /\ CLess(T, val, IntMaxT, least_stored_integer(F))
            \/ val > 0 /\ CLess(largest_type(F), largest_stored_integer(F), T, val),
            FALSE)

(***************************************************************************)
(* Construction from an arithmetic value.                                  *)
(* A double x is the pair [m, k]: x = m * 2^-k, k >= 0.                     *)
(***************************************************************************)
Real(m, k) == [m |-> m, k |-> k]

Floor(num, den) == num \div den

Ceil(num, den) == -((-num) \div den)

\* static_cast<T>(r) of a double holding the integer r: r when T can hold
\* it, and undefined otherwise (builds give r modulo 2^w, or T's limits)
double_to_int(t, r) ==
    IF TMin(t) <= r /\ r <= TMax(t) THEN {r} ELSE {Conv(t, r), TMin(t), TMax(t)}

\* value * scale as the fraction num / den, where value = x * 2^e
ScaledNum(F, x) ==
    IF F.e + F.f - x.k >= 0 THEN x.m * Pow2(F.e + F.f - x.k) ELSE x.m

ScaledDen(F, x) ==
    IF F.e + F.f - x.k >= 0 THEN 1 ELSE Pow2(x.k - F.e - F.f)

\* rounded with std::floor(value * scale + 0.5) taken for every x
rounded_floor_only(F, x) ==
    Floor(2 * ScaledNum(F, x) + ScaledDen(F, x), 2 * ScaledDen(F, x))

\* std::floor(value * scale + 0.5) for x > 0, std::ceil(value * scale - 0.5) otherwise
rounded(F, x) ==
    LET num == ScaledNum(F, x)
        den == ScaledDen(F, x)
    IN  IF x.m > 0 THEN Floor(2 * num + den, 2 * den)
                   ELSE Ceil(2 * num - den, 2 * den)

\* the floating-point case: the set of outcomes the cast allows
calc_stored_integer_from_floating(F, x) ==
    { Outcome(c, x.m > 0 /\ c < 0, FALSE) :
        c \in double_to_int(storage_type(F), rounded(F, x)) }

\* double(k) * 2^e truncated toward zero by the cast to storage_type
int_value(F, k) ==
    IF F.e >= 0 THEN k * Pow2(F.e) ELSE CDiv(k, Pow2(-F.e))

\* the integral case
calc_stored_integer_from_integral(F, k) ==
    { Outcome(Conv(storage_type(F), c * Pow2(F.f)), FALSE, FALSE) :
        c \in double_to_int(storage_type(F), int_value(F, k)) }

(***************************************************************************)
(* Normalisation from another format.                                      *)
(***************************************************************************)
\* the constructor's dispatch: true_type when f1 + e1 - f - e > 0
shifts_right(F, F1) == F1.f + F1.e - F.f - F.e > 0

\* normalize(_x, std::false_type): the left shift
normalize_left(F, x) ==
    LET st == storage_type(F)
        shifts == (F.f + F.e) - (x.fmt.e + x.fmt.f)
        normalized == Conv(st, Conv(st, x.v) * Pow2(shifts))
    IN  Outcome(normalized,
                CNotEqual(storage_type(x.fmt), x.v, st, Shr(normalized, shifts)),
                FALSE)

\* normalize_right with the underflow test reduced to !normalized
normalize_right_any_zero(F, x) ==
    LET shifts == (x.fmt.e + x.fmt.f) - (F.f + F.e)
        normalized == Conv(storage_type(F), Shr(x.v, shifts))
    IN  Outcome(normalized, FALSE, normalized = 0)

\* normalize(_x, std::true_type): the right shift
normalize_right(F, x) ==
    LET shifts == (x.fmt.e + x.fmt.f) - (F.f + F.e)
        normalized == Conv(storage_type(F), Shr(x.v, shifts))
    IN  Outcome(normalized, FALSE, x.v # 0 /\ normalized = 0)

normalize(F, x) ==
    IF shifts_right(F, x.fmt) THEN normalize_right(F, x) ELSE normalize_left(F, x)

\* the shift count is below the width of the shifted type (otherwise undefined)
ShiftDefined(F, F1) ==
    IF shifts_right(F, F1) THEN (F1.e + F1.f) - (F.f + F.e) < F1.w
                           ELSE (F.f + F.e) - (F1.e + F1.f) < F.w

(***************************************************************************)
(* Result types of the operators.                                          *)
(***************************************************************************)
\* a host integer of the signedness s with at least `bits` digits exists
HostHolds(s, bits) == bits <= Digits(HostType(s, IntMaxBits))

\* the narrowest host type of the signedness s with at least `bits` digits
WordFor(s, bits) == LeastType(s, IF s THEN bits + 1 ELSE bits)

\* sum_traits<Q>: one more integral bit
sum_is_expandable(A) == HostHolds(A.s, A.n + 1 + A.f)

sum_promoted_type(A) ==
    IF sum_is_expandable(A)
    THEN Fmt(A.s, WordFor(A.s, A.n + 1 + A.f).w, A.n + 1, A.f, A.e)
    ELSE A

\* mult_of<A, B>
mult_is_signed(A, B) == A.s \/ B.s

mult_is_expandable(A, B) ==
    HostHolds(mult_is_signed(A, B), A.n + B.n + A.f + B.f)

mult_promoted_type(A, B) ==
    IF mult_is_expandable(A, B)
    THEN Fmt(mult_is_signed(A, B),
             WordFor(mult_is_signed(A, B), A.n + B.n + A.f + B.f).w,
             A.n + B.n, A.f + B.f, A.e + B.e)
    ELSE A

\* quotient<A, B>.  Its n1 and n2 count all the significant bits of the
\* operands (numeric_limits: digits = n, max_exponent = n - f), n + f here.
quotient_is_signed(A, B) == A.s

\* is_closed with the comparison n1 + n2 < digits
quotient_is_closed_strict(A, B) ==
    ~(number_of_significant_bits(A) + number_of_significant_bits(B)
        < Digits(HostType(quotient_is_signed(A, B), IntMaxBits)))

quotient_is_closed(A, B) ==
    ~(number_of_significant_bits(A) + number_of_significant_bits(B)
        <= Digits(HostType(quotient_is_signed(A, B), IntMaxBits)))

quotient_word_type(A, B) ==
    IF quotient_is_closed(A, B)
    THEN storage_type(A)
    ELSE IF quotient_is_signed(A, B)
         THEN LeastType(TRUE, number_of_significant_bits(A)
                                + number_of_significant_bits(B) + 1)
         ELSE LeastType(FALSE, number_of_significant_bits(A)
                                + number_of_significant_bits(B))

quotient_type(A, B) ==
    IF quotient_is_closed(A, B)
    THEN A
    ELSE LET total == number_of_significant_bits(A) + number_of_significant_bits(B)
             frac == A.f + (number_of_significant_bits(B) - B.f)
         IN  Fmt(quotient_word_type(A, B).s, quotient_word_type(A, B).w,
                 total - frac, frac, A.e - B.e)

(***************************************************************************)
(* arithmetics_safety: the checks made before the operation.               *)
(***************************************************************************)
does_addition_overflow(F, a, b) ==
    IF F.s THEN (a < 0) = (b < 0) /\ (Conv(storage_type(F), a + b) < 0) # (a < 0)
           ELSE a + b > TMax(storage_type(F))

does_subtraction_overflow(F, a, b) ==
    IF F.s THEN (a < 0) # (b < 0) /\ (Conv(storage_type(F), a - b) < 0) # (a < 0)
           ELSE a < b

does_multiplication_overflow(A, a, B, b) ==
    LET t == storage_type(mult_promoted_type(A, B))
    IN  a * b > TMax(t) \/ a * b < TMin(t)

does_division_overflow(A, a, B, b) ==
    b = 0 \/ (A.s /\ b = -1 /\ a = TMin(storage_type(A)))

(***************************************************************************)
(* The operators.  Each gives the set of outcomes of the operation: one,   *)
(* unless the operation runs into undefined behaviour.                     *)
(***************************************************************************)
\* v << s in the type t: undefined when s is not below the width of t
\* (builds give 0, or shift by s modulo the width)
Shl(t, v, s) ==
    IF s < t.w THEN {Conv(t, v * Pow2(s))} ELSE {0, Conv(t, v * Pow2(s % t.w))}

\* a / b in the type t: undefined when b = 0 and when the quotient is not a
\* value of t (builds trap, or give such values as these)
Quot(t, a, b) ==
    IF b # 0 /\ TMin(t) <= CDiv(a, b) /\ CDiv(a, b) <= TMax(t)
    THEN {CDiv(a, b)}
    ELSE {0, TMin(t), TMax(t)}

\* operator + with the sum computed in the storage type of this_class
operator_plus_unpromoted(x, converted) ==
    LET sum_type == sum_promoted_type(x.fmt)
        word_type == storage_type(x.fmt)
        stored_integer ==
            Conv(word_type, Conv(word_type, x.v) + Conv(word_type, converted.v))
        r == wrap(sum_type, word_type, stored_integer)
    IN  [fmt |-> sum_type, v |-> r.v,
         ovf |-> \/ converted.ovf
                 \/ does_addition_overflow(x.fmt, x.v, converted.v)
                 \/ r.ovf,
         unf |-> converted.unf]

\* operator + once the right operand is converted to this_class
operator_plus(x, converted) ==
    LET sum_type == sum_promoted_type(x.fmt)
        word_type == storage_type(sum_type)
        stored_integer ==
            Conv(word_type, Conv(word_type, x.v) + Conv(word_type, converted.v))
        r == wrap(sum_type, word_type, stored_integer)
    IN  [fmt |-> sum_type, v |-> r.v,
         ovf |-> \/ converted.ovf
                 \/ does_addition_overflow(x.fmt, x.v, converted.v)
                 \/ r.ovf,
         unf |-> converted.unf]

\* operator - once the right operand is converted to this_class
operator_minus(x, converted) ==
    LET diff_type == sum_promoted_type(x.fmt)
        word_type == storage_type(diff_type)
        stored_integer ==
            Conv(word_type, Conv(word_type, x.v) - Conv(word_type, converted.v))
        r == wrap(diff_type, word_type, stored_integer)
    IN  [fmt |-> diff_type, v |-> r.v,
         ovf |-> \/ converted.ovf
                 \/ does_subtraction_overflow(x.fmt, x.v, converted.v)
                 \/ r.ovf,
         unf |-> converted.unf]

\* operator * with the closed product shifted by the left operand's fraction
operator_times_own_fraction(x, y) ==
    LET result_type == mult_promoted_type(x.fmt, y.fmt)
        word_type == storage_type(result_type)
        product == Conv(word_type, Conv(word_type, x.v) * Conv(word_type, y.v))
        r == wrap(result_type, word_type,
                  Shr(product, IF mult_is_expandable(x.fmt, y.fmt) THEN 0 ELSE x.fmt.f))
    IN  [fmt |-> result_type, v |-> r.v,
         ovf |-> does_multiplication_overflow(x.fmt, x.v, y.fmt, y.v) \/ r.ovf,
         unf |-> FALSE]

\* operator *
operator_times(x, y) ==
    LET result_type == mult_promoted_type(x.fmt, y.fmt)
        word_type == storage_type(result_type)
        product == Conv(word_type, Conv(word_type, x.v) * Conv(word_type, y.v))
        r == wrap(result_type, word_type,
                  Shr(product, IF mult_is_expandable(x.fmt, y.fmt) THEN 0 ELSE y.fmt.f))
    IN  [fmt |-> result_type, v |-> r.v,
         ovf |-> does_multiplication_overflow(x.fmt, x.v, y.fmt, y.v) \/ r.ovf,
         unf |-> FALSE]

\* the numerator shifted by `bits`, divided by y, in the quotient's word type
divide_by_shift(x, y, bits) ==
    LET result_type == quotient_type(x.fmt, y.fmt)
        word_type == quotient_word_type(x.fmt, y.fmt)
    IN  { [fmt |-> result_type, v |-> wrap(result_type, word_type, sq[2]).v,
           ovf |-> \/ does_division_overflow(x.fmt, x.v, y.fmt, y.v)
                   \/ /\ quotient_is_closed(x.fmt, y.fmt)
                      /\ CNotEqual(storage_type(y.fmt), y.v, word_type, Shr(sq[1], bits))
                   \/ wrap(result_type, word_type, sq[2]).ovf,
           unf |-> FALSE] :
          sq \in UNION { { <<shifted, q>> :
                             q \in Quot(word_type, shifted, Conv(word_type, y.v)) } :
                         shifted \in Shl(word_type, Conv(word_type, x.v), bits) } }

\* operator / with the numerator shifted by the denominator's fraction only
operator_divide_fraction_shift(x, y) == divide_by_shift(x, y, y.fmt.f)

\* operator /
operator_divide(x, y) == divide_by_shift(x, y, number_of_significant_bits(y.fmt))

\* does_unary_negation_overflow: the signed minimum has no negation
does_unary_negation_overflow(F, v) == F.s /\ v = least_stored_integer(F)

\* -v in the signed type t: undefined when v is the least value of t (builds
\* give the least value again, or saturate)
Negate(t, v) == IF v = TMin(t) THEN {TMin(t), TMax(t)} ELSE {-v}

\* unary operator - with the unsigned case negated as the signed one is
operator_negate_two_complement(x) ==
    LET F == x.fmt
        T == IF F.s THEN storage_type(F) ELSE UIntMaxT
    IN  { [fmt |-> F, v |-> wrap(F, T, m).v,
           ovf |-> does_unary_negation_overflow(F, x.v) \/ wrap(F, T, m).ovf,
           unf |-> FALSE] :
          m \in IF F.s THEN Negate(T, x.v) ELSE {Conv(T, -x.v)} }

\* unary operator -
operator_negate(x) ==
    LET F == x.fmt
        T == IF F.s THEN storage_type(F) ELSE UIntMaxT
    IN  { [fmt |-> F, v |-> wrap(F, T, m).v,
           ovf |-> does_unary_negation_overflow(F, x.v) \/ wrap(F, T, m).ovf,
           unf |-> FALSE] :
          m \in IF F.s THEN Negate(T, x.v)
                       ELSE {Conv(T, largest_stored_integer(F) - x.v)} }

(***************************************************************************)
(* Inputs.                                                                 *)
(***************************************************************************)
Formats ==
    { Q(IntBits - 1, 2, 0), Q(IntBits, 2, 0), UQ(IntBits, 2, 0),
      Q(2, 1, -1), Q(IntBits - 1, 0, 0), Q(IntMaxBits - 1, IntBits, 1) }

\* stored integers at and around the bounds of F and of its storage type
Boundary(F) ==
    { least_stored_integer(F) - 1, least_stored_integer(F), -2, -1, 0, 1, 2,
      largest_stored_integer(F), largest_stored_integer(F) + 1,
      TMin(storage_type(F)) - 1, TMax(storage_type(F)) + 1 }

WrapInputs(F, T) ==
    { v \in Boundary(F) \cup {TMin(T), TMax(T)} : TMin(T) <= v /\ v <= TMax(T) }

\* reals on the quarter grid of F around the boundary values, and small integers
RealInputs(F) ==
    { Real(4 * c + d, F.f + F.e + 2) : c \in Boundary(F), d \in -2..2 }
        \cup { Real(k, 0) : k \in -MaxInt..MaxInt }

\* right operands: representable values at the bounds and around zero
Operands ==
    UNION { { Value(F, v) : v \in (-1..IntBits) \cup {least_stored_integer(F),
                                                      largest_stored_integer(F)} } :
            F \in Formats }

RightOperands ==
    { y \in Operands : /\ least_stored_integer(y.fmt) <= y.v
                       /\ y.v <= largest_stored_integer(y.fmt) }

NoValue == Value(Q(2, 1, -1), 0)

NoReal == Real(0, 0)

\* the template arguments of an alias: signed (Q) or not (UQ), n, f and e
Alias(s, n, f, e) == [s |-> s, n |-> n, f |-> f, e |-> e]

NoAlias == Alias(TRUE, 0, 0, 0)

Step(op, lhs, rhs, T, x, res, ovf, unf) ==
    [op |-> op, lhs |-> lhs, rhs |-> rhs, T |-> T, x |-> x, k |-> 0,
     q |-> NoAlias, res |-> res, ovf |-> ovf, unf |-> unf]

\* no function is running
Idle == [name |-> "none", pc |-> "idle"]

(***************************************************************************)
(* The operations.                                                         *)
(***************************************************************************)
\* fixed_point(0): `fp arg(0)`
Init ==
    \E F \in Formats :
        /\ fn = Idle
        /\ acc = Value(F, 0)
        /\ last = Step("init", NoValue, NoValue, IntMaxT, NoReal, Value(F, 0), FALSE, FALSE)

\* this_class::wrap(_val)
Wrap ==
    /\ UNCHANGED fn
    /\ last.op = "init"
    /\ \E F \in Formats, T \in HostTypes :
        \E val \in WrapInputs(F, T) :
            LET r == wrap(F, T, val)
            IN  /\ acc' = Value(F, r.v)
                /\ last' = Step("wrap", NoValue, Value(F, val), T, NoReal,
                                Value(F, r.v), r.ovf, r.unf)

\* fixed_point(T const&) with a floating-point T
FromReal ==
    /\ UNCHANGED fn
    /\ last.op = "init"
    /\ \E F \in Formats :
        \E x \in RealInputs(F) :
            \E r \in calc_stored_integer_from_floating(F, x) :
                /\ acc' = Value(F, r.v)
                /\ last' = Step("from_real", NoValue, NoValue, IntMaxT, x,
                                Value(F, r.v), r.ovf, r.unf)

\* fixed_point(T const&) with an integral T
FromInt ==
    /\ UNCHANGED fn
    /\ last.op = "init"
    /\ \E F \in Formats :
        \E k \in -MaxInt..MaxInt :
            \E r \in calc_stored_integer_from_integral(F, k) :
                /\ acc' = Value(F, r.v)
                /\ last' = [Step("from_int", NoValue, NoValue, IntMaxT, NoReal,
                                 Value(F, r.v), r.ovf, r.unf) EXCEPT !.k = k]

\* Q<n, f, e> x(0) and UQ<n, f, e> x(0), for every n a host integer holds
Declare ==
    /\ UNCHANGED fn
    /\ last.op = "init"
    /\ \E s \in BOOLEAN :
        \E n \in 1..Digits(HostType(s, IntMaxBits)) :
            \E f \in 0..n, e \in -1..1 :
                LET F == IF s THEN Q(n, f, e) ELSE UQ(n, f, e)
                IN  /\ acc' = Value(F, 0)
                    /\ last' = [Step("alias", NoValue, NoValue, IntMaxT, NoReal,
                                     Value(F, 0), FALSE, FALSE)
                                    EXCEPT !.q = Alias(s, n, f, e)]

\* acc holds a value that a constructor has just made
Constructed == last.op \in {"wrap", "from_real", "from_int"}

\* fixed_point(fixed_point<T1, n1, f1, e1, Ps...> const&) applied to acc
Normalize ==
    \E F \in Formats :
        /\ UNCHANGED fn
        /\ Constructed
        /\ F # acc.fmt
        /\ ShiftDefined(F, acc.fmt)
        /\ LET r == normalize(F, acc)
           IN  /\ acc' = Value(F, r.v)
               /\ last' = Step("normalize", acc, NoValue, IntMaxT, NoReal,
                               Value(F, r.v), r.ovf, r.unf)

\* this_class const converted(_x) for a fixed-point _x
converted_from(F, y) ==
    IF y.fmt = F THEN Outcome(y.v, FALSE, FALSE) ELSE normalize(F, y)

\* acc + y and acc - y for a fixed-point y
Add ==
    /\ UNCHANGED fn
    /\ Constructed
    /\ \E y \in RightOperands :
        /\ ShiftDefined(acc.fmt, y.fmt)
        /\ LET r == operator_plus(acc, converted_from(acc.fmt, y))
           IN  /\ acc' = Value(r.fmt, r.v)
               /\ last' = Step("add", acc, y, IntMaxT, NoReal,
                               Value(r.fmt, r.v), r.ovf, r.unf)

Sub ==
    /\ UNCHANGED fn
    /\ Constructed
    /\ \E y \in RightOperands :
        /\ ShiftDefined(acc.fmt, y.fmt)
        /\ LET r == operator_minus(acc, converted_from(acc.fmt, y))
           IN  /\ acc' = Value(r.fmt, r.v)
               /\ last' = Step("sub", acc, y, IntMaxT, NoReal,
                               Value(r.fmt, r.v), r.ovf, r.unf)

\* acc + k and acc - k for an integer k
AddInt ==
    /\ UNCHANGED fn
    /\ Constructed
    /\ \E k \in 0..MaxInt :
        \E c \in calc_stored_integer_from_integral(acc.fmt, k) :
            LET r == operator_plus(acc, c)
            IN  /\ acc' = Value(r.fmt, r.v)
                /\ last' = [Step("add_int", acc, NoValue, IntMaxT, NoReal,
                                 Value(r.fmt, r.v), r.ovf, r.unf) EXCEPT !.k = k]

SubInt ==
    /\ UNCHANGED fn
    /\ Constructed
    /\ \E k \in 0..MaxInt :
        \E c \in calc_stored_integer_from_integral(acc.fmt, k) :
            LET r == operator_minus(acc, c)
            IN  /\ acc' = Value(r.fmt, r.v)
                /\ last' = [Step("sub_int", acc, NoValue, IntMaxT, NoReal,
                                 Value(r.fmt, r.v), r.ovf, r.unf) EXCEPT !.k = k]

\* acc * y
Mul ==
    /\ UNCHANGED fn
    /\ Constructed
    /\ \E y \in RightOperands :
        LET r == operator_times(acc, y)
        IN  /\ acc' = Value(r.fmt, r.v)
            /\ last' = Step("mul", acc, y, IntMaxT, NoReal,
                            Value(r.fmt, r.v), r.ovf, r.unf)

\* acc / y
Div ==
    /\ UNCHANGED fn
    /\ Constructed
    /\ \E y \in RightOperands :
        \E r \in operator_divide(acc, y) :
            /\ acc' = Value(r.fmt, r.v)
            /\ last' = Step("div", acc, y, IntMaxT, NoReal,
                            Value(r.fmt, r.v), r.ovf, r.unf)

\* lift(x) >>= 1u
Halve ==
    /\ UNCHANGED fn
    /\ Constructed
    /\ acc' = Value(acc.fmt, Shr(acc.v, 1))
    /\ last' = Step("halve", acc, NoValue, IntMaxT, NoReal,
                    Value(acc.fmt, Shr(acc.v, 1)), FALSE, FALSE)

\* -acc, and -(-acc): last.rhs keeps the operand of the first negation and
\* last.k counts the negations
Neg ==
    /\ UNCHANGED fn
    /\ Constructed \/ (last.op = "neg" /\ last.k = 1)
    /\ \E r \in operator_negate(acc) :
        /\ acc' = Value(r.fmt, r.v)
        /\ last' = [Step("neg", acc, IF Constructed THEN acc ELSE last.rhs,
                         IntMaxT, NoReal, Value(r.fmt, r.v), r.ovf, r.unf)
                        EXCEPT !.k = IF Constructed THEN 1 ELSE 2]

(***************************************************************************)
(* lut::hyperbolic_scale_with_repeated_iterations(_n).  The double scale   *)
(* is a product of the factors sqrt(1 - 2^(-2i)); fn.scale[i] counts how   *)
(* many times the factor of the index i has been multiplied in.            *)
(***************************************************************************)
\* double scale(1.0); std::size_t repeated(4u); the range starts at 1
HyperbolicScaleCall ==
    /\ last.op = "init"
    /\ fn = Idle
    /\ \E n \in 1..MaxScaleN :
        /\ fn' = [name |-> "hyperbolic_scale", pc |-> "loop", n |-> n, next |-> 1,
                  repeated |-> 4, scale |-> [i \in 1..MaxScaleN |-> 0]]
        /\ last' = Step("hyperbolic_scale", NoValue, NoValue, IntMaxT, NoReal,
                        NoValue, FALSE, FALSE)
        /\ acc' = NoValue

\* the body of the loop with the range's element `from` in its copy i: the
\* i++ of the repeated factor increments the copy after it is read
hyperbolic_scale_body(scale, repeated, n, from) ==
    LET i == from
        once == [scale EXCEPT ![i] = @ + 1]
    IN  IF i = repeated /\ i # n - 1
        THEN [scale |-> [once EXCEPT ![i] = @ + 1], repeated |-> 3 * repeated + 1]
        ELSE [scale |-> once, repeated |-> repeated]

\* one pass of BOOST_FOREACH over boost::irange(1, _n, 1)
HyperbolicScaleStep ==
    /\ fn.name = "hyperbolic_scale" /\ fn.pc = "loop"
    /\ fn.next < fn.n
    /\ LET b == hyperbolic_scale_body(fn.scale, fn.repeated, fn.n, fn.next)
       IN  fn' = [fn EXCEPT !.scale = b.scale, !.repeated = b.repeated,
                            !.next = fn.next + 1]
    /\ UNCHANGED <<acc, last>>

\* return scale
HyperbolicScaleReturn ==
    /\ fn.name = "hyperbolic_scale" /\ fn.pc = "loop"
    /\ fn.next >= fn.n
    /\ fn' = [fn EXCEPT !.pc = "done"]
    /\ UNCHANGED <<acc, last>>

(***************************************************************************)
(* std::sin(val): the range reduction, then the rotation-mode CORDIC loop. *)
(* fp is the argument's format; the constants are doubles given to fp's    *)
(* constructor, written here to 12 binary places.                          *)
(***************************************************************************)
\* fp: signed, with n - f >= 3 integer bits (the static assertions of sin)
SinFormat == Fmt(TRUE, IntMaxBits, IntBits, IntBits - 1, 0)

\* fp::CONST_2PI, fp::CONST_PI, fp::CONST_PI_2
CONST_2PI(F) == rounded(F, Real(25736, 12))

CONST_PI(F) == rounded(F, Real(12868, 12))

CONST_PI_2(F) == rounded(F, Real(6434, 12))

\* std::fmod of two values of one format: the remainder of the truncated
\* quotient, with the sign of the dividend
fmod(a, b) == a - CDiv(a, b) * b

\* fp(a + b) and fp(a - b) of two values of the format F
fp_plus(F, a, b) ==
    LET r == operator_plus(Value(F, a), Outcome(b, FALSE, FALSE))
    IN  converted_from(F, Value(r.fmt, r.v)).v

fp_minus(F, a, b) ==
    LET r == operator_minus(Value(F, a), Outcome(b, FALSE, FALSE))
    IN  converted_from(F, Value(r.fmt, r.v)).v

\* -c for a positive constant c of the format F
negated(F, c) == (CHOOSE r \in operator_negate(Value(F, c)) : TRUE).v

\* the range reduction: arg and sign
sin_reduction(F, val) ==
    LET x == fp_minus(F, CONST_PI(F), fmod(val, CONST_2PI(F)))
    IN  IF x < negated(F, CONST_PI_2(F))
        THEN [arg |-> fp_plus(F, x, CONST_PI(F)), sign |-> -1]
        ELSE IF x > CONST_PI_2(F)
             THEN [arg |-> fp_minus(F, x, CONST_PI(F)), sign |-> -1]
             ELSE [arg |-> x, sign |-> 1]

\* std::atan(1.0 / std::pow(2.0, double(i)))
atan_pow2(i) ==
    Real(IF i < 5 THEN <<3217, 1899, 1003, 509, 256>>[i + 1] ELSE Pow2(12 - i), 12)

\* lut::build_arctan_lut(): table[i] = fp(atan(2^-i)) for i = 0 .. n - 1
build_arctan_lut(F, n) == [i \in 0..(n - 1) |-> rounded(F, atan_pow2(i))]

\* 1.0 / lut_type::compute_circular_scale(f), the scale being the product of
\* sqrt(1 + 2^(-2i)) for i = 0 .. f - 1
inverse_circular_scale(f) ==
    Real(IF f <= 6 THEN <<2896, 2591, 2513, 2494, 2489, 2488>>[f] ELSE 2487, 12)

\* fp::wrap(sign * (v.value() >> i))
scaled(F, sign, v, i) ==
    wrap(F, storage_type(F), Conv(storage_type(F), sign * Shr(v, i))).v

\* the loop body with y1 computed from the new x
cordic_rotation_in_place(F, i, x, y, z) ==
    LET sign == IF z > 0 THEN 1 ELSE -1
        angle == build_arctan_lut(F, F.f)[i]
        x1 == fp_minus(F, x, scaled(F, sign, y, i))
    IN  [x |-> x1,
         y |-> fp_plus(F, y, scaled(F, sign, x1, i)),
         z |-> fp_minus(F, z, IF sign > 0 THEN angle ELSE negated(F, angle))]

\* the loop body: x1, y1 and z1 from x, y and z
cordic_rotation(F, i, x, y, z) ==
    LET sign == IF z > 0 THEN 1 ELSE -1
        angle == build_arctan_lut(F, F.f)[i]
        x_scaled == scaled(F, sign, x, i)
        y_scaled == scaled(F, sign, y, i)
    IN  [x |-> fp_minus(F, x, y_scaled),
         y |-> fp_plus(F, y, x_scaled),
         z |-> fp_minus(F, z, IF sign > 0 THEN angle ELSE negated(F, angle))]

\* sin(val) up to the loop: fp x(norm_factor), y(0.0), z(arg)
SinCall ==
    /\ last.op = "init"
    /\ fn = Idle
    /\ \E val \in least_stored_integer(SinFormat)..largest_stored_integer(SinFormat) :
        LET red == sin_reduction(SinFormat, val)
        IN  /\ fn' = [name |-> "sin", pc |-> "loop", val |-> val,
                      arg |-> red.arg, sign |-> red.sign, i |-> 0,
                      x |-> rounded(SinFormat, inverse_circular_scale(SinFormat.f)),
                      y |-> rounded(SinFormat, Real(0, 0)),
                      z |-> red.arg]
            /\ acc' = Value(SinFormat, val)
            /\ last' = Step("sin", NoValue, NoValue, IntMaxT, NoReal,
                            Value(SinFormat, val), FALSE, FALSE)

\* one pass of BOOST_FOREACH over boost::irange<size_t>(0, f, 1)
SinRotate ==
    /\ fn.name = "sin" /\ fn.pc = "loop"
    /\ fn.i < SinFormat.f
    /\ LET r == cordic_rotation(SinFormat, fn.i, fn.x, fn.y, fn.z)
       IN  fn' = [fn EXCEPT !.x = r.x, !.y = r.y, !.z = r.z, !.i = fn.i + 1]
    /\ UNCHANGED <<acc, last>>

\* return (sign > 0) ? y : -y
SinReturn ==
    /\ fn.name = "sin" /\ fn.pc = "loop"
    /\ fn.i >= SinFormat.f
    /\ \E r \in IF fn.sign > 0 THEN {fn.y}
                 ELSE {o.v : o \in operator_negate(Value(SinFormat, fn.y))} :
        acc' = Value(SinFormat, r)
    /\ fn' = [fn EXCEPT !.pc = "done"]
    /\ UNCHANGED last

(***************************************************************************)
(* std::sinh(val).  std::exp is a function of its argument whose values    *)
(* are not computed here: a call returns some positive value of the type.  *)
(***************************************************************************)
\* type: a signed format that holds val * CONST_LOG2E for |val| <= 1
SinhFormat == Fmt(TRUE, IntMaxBits, IntBits, IntBits - 1, 0)

\* type::CONST_LOG2E
CONST_LOG2E(F) == rounded(F, Real(5909, 12))

\* the values a call of std::exp may return
exp_values(F) == 1..MaxInt

\* type const arg(val * type::CONST_LOG2E)
sinh_argument(F, val) ==
    LET r == operator_times(Value(F, val), Value(F, CONST_LOG2E(F)))
    IN  converted_from(F, Value(r.fmt, r.v)).v

\* type x = type(exp(arg) - exp(-arg)); as_native(x) >>= 1u; return x
Sinh ==
    /\ last.op = "init"
    /\ fn = Idle
    /\ \E val \in -Pow2(SinhFormat.f)..Pow2(SinhFormat.f) :
        LET arg == sinh_argument(SinhFormat, val)
        IN  \E minus_arg \in {o.v : o \in operator_negate(Value(SinhFormat, arg))} :
                \E e1 \in exp_values(SinhFormat), e2 \in exp_values(SinhFormat) :
                    /\ fn' = [name |-> "sinh", pc |-> "done", val |-> val,
                              exp_of |-> <<arg, minus_arg>>,
                              exp |-> <<e1, e2>>]
                    /\ acc' = Value(SinhFormat,
                                    Shr(fp_minus(SinhFormat, e1, e2), 1))
                    /\ last' = Step("sinh", NoValue, NoValue, IntMaxT, NoReal,
                                    Value(SinhFormat, val), FALSE, FALSE)

(***************************************************************************)
(* std::atanh(_val).  std::log is a function of its argument whose values  *)
(* are not computed here: a call with a positive argument returns some     *)
(* value of log's result type, a call with another argument is a domain    *)
(* error of log.  A failed assertion is the domain error of atanh.         *)
(***************************************************************************)
\* Q: the formats of the argument
AtanhFormats == {Q(IntBits - 1, 2, 0), UQ(IntBits, 2, 0)}

\* the least k with 2^k >= m
RECURSIVE CeilLog2(_)
CeilLog2(m) == IF m <= 1 THEN 0 ELSE 1 + CeilLog2((m + 1) \div 2)

\* log_of<T, n, f, e, op, up>::promoted_type
log_promoted_type(F) ==
    LET total == F.n + CeilLog2(F.n + F.f) + F.f
    IN  Fmt(TRUE, WordFor(TRUE, total).w, total - F.f, F.f, F.e)

\* atanh_of<Q>::promoted_type: sum_traits of log's promoted type
atanh_promoted_type(F) == sum_promoted_type(log_promoted_type(F))

\* the values a call of std::log may return
log_values(F) == -MaxInt..MaxInt

\* std::fabs(_val)
fabs(F, v) ==
    IF v < 0 THEN {o.v : o \in operator_negate(Value(F, v))} ELSE {v}

\* the assertion: std::fabs(_val) <= Q(1.0f), a its left side, one its right
atanh_argument_accepted(a, one) == a <= one

\* the arguments of the two calls of log: _val + 1u and Q(1) - _val
atanh_log_arguments(F, val) ==
    { <<operator_plus(Value(F, val), c).v,
        operator_minus(Value(F, c.v), Outcome(val, FALSE, FALSE)).v>> :
      c \in calc_stored_integer_from_integral(F, 1) }

\* result_type x(log(..) - log(..)); libq::lift(x) >>= 1u; return x
Atanh ==
    /\ last.op = "init"
    /\ fn = Idle
    /\ \E F \in AtanhFormats :
        \E val \in least_stored_integer(F)..largest_stored_integer(F) :
            \E a \in fabs(F, val),
               one \in {o.v : o \in calc_stored_integer_from_floating(F, Real(1, 0))} :
                /\ last' = Step("atanh", NoValue, NoValue, IntMaxT, NoReal,
                                Value(F, val), FALSE, FALSE)
                /\ IF ~atanh_argument_accepted(a, one)
                   THEN /\ fn' = [name |-> "atanh", pc |-> "done", fmt |-> F,
                                  val |-> val, domain |-> TRUE, log_domain |-> FALSE,
                                  log_of |-> <<>>, log |-> <<>>]
                        /\ acc' = Value(F, val)
                   ELSE \E args \in atanh_log_arguments(F, val) :
                         IF args[1] <= 0 \/ args[2] <= 0
                         THEN /\ fn' = [name |-> "atanh", pc |-> "done", fmt |-> F,
                                        val |-> val, domain |-> FALSE,
                                        log_domain |-> TRUE,
                                        log_of |-> args, log |-> <<>>]
                              /\ acc' = Value(F, val)
                         ELSE \E l1 \in log_values(F), l2 \in log_values(F) :
                               LET L == log_promoted_type(F)
                                   d == operator_minus(Value(L, l1),
                                                       Outcome(l2, FALSE, FALSE))
                                   x == converted_from(atanh_promoted_type(F),
                                                       Value(d.fmt, d.v))
                               IN  /\ fn' = [name |-> "atanh", pc |-> "done",
                                             fmt |-> F, val |-> val,
                                             domain |-> FALSE, log_domain |-> FALSE,
                                             log_of |-> args, log |-> <<l1, l2>>]
                                   /\ acc' = Value(atanh_promoted_type(F),
                                                   Shr(x.v, 1))

(***************************************************************************)
(* details::unroll(_f, _begin, loop_size<N>) inside the chunked loop of its *)
(* Example 1: for (i = 0; i != N; i += CHUNK_LENGTH)                       *)
(*                unroll(filler, i, loop_size<CHUNK_LENGTH-1>()).          *)
(* fn.level is the N of the instance of unroll that is running, fn.cur the *)
(* arguments the body got in the running call of unroll, fn.calls those it *)
(* got since the loop began.  filler writes array[_i]: an index outside    *)
(* the array of N elements is undefined behaviour, where the run ends.     *)
(***************************************************************************)
\* the argument of the body in unroll<N>, shifted by one
unroll_argument_shifted(begin, N) == begin + N + 1

\* _f(_begin + N); in loop_size<0u>: _f(_begin)
unroll_argument(begin, N) == begin + N

\* the body is applied to the index a
unroll_apply(a) ==
    IF a >= fn.N
    THEN [fn EXCEPT !.pc = "undefined"]
    ELSE [fn EXCEPT !.pc = "unwind", !.cur = Append(@, a),
                    !.calls = Append(@, a)]

\* uintmax_t i = 0
UnrollLoopCall ==
    /\ last.op = "init"
    /\ fn = Idle
    /\ \E N \in 0..MaxLoopN, chunk \in 1..MaxLoopN :
        fn' = [name |-> "unroll", pc |-> "loop", N |-> N, chunk |-> chunk,
               i |-> 0, level |-> 0, cur |-> <<>>, calls |-> <<>>]
    /\ last' = Step("unroll", NoValue, NoValue, IntMaxT, NoReal, NoValue,
                    FALSE, FALSE)
    /\ acc' = NoValue

\* i != N: unroll(filler, i, loop_size<CHUNK_LENGTH-1>())
UnrollCall ==
    /\ fn.name = "unroll" /\ fn.pc = "loop"
    /\ fn.i # fn.N
    /\ fn' = [fn EXCEPT !.pc = "descend", !.level = fn.chunk - 1, !.cur = <<>>]
    /\ UNCHANGED <<acc, last>>

\* unroll<N>: unroll(_f, _begin, loop_size<N-1>())
UnrollDescend ==
    /\ fn.name = "unroll" /\ fn.pc = "descend"
    /\ fn.level > 0
    /\ fn' = [fn EXCEPT !.level = fn.level - 1]
    /\ UNCHANGED <<acc, last>>

\* unroll<0u>: _f(_begin)
UnrollBase ==
    /\ fn.name = "unroll" /\ fn.pc = "descend"
    /\ fn.level = 0
    /\ fn' = unroll_apply(unroll_argument(fn.i, 0))
    /\ UNCHANGED <<acc, last>>

\* unroll<N-1> has returned into unroll<N>: _f(_begin + N)
UnrollUnwind ==
    /\ fn.name = "unroll" /\ fn.pc = "unwind"
    /\ fn.level < fn.chunk - 1
    /\ fn' = [unroll_apply(unroll_argument(fn.i, fn.level + 1))
                  EXCEPT !.level = fn.level + 1]
    /\ UNCHANGED <<acc, last>>

\* unroll<CHUNK_LENGTH-1> returns into the loop: i += CHUNK_LENGTH
UnrollReturn ==
    /\ fn.name = "unroll" /\ fn.pc = "unwind"
    /\ fn.level = fn.chunk - 1
    /\ fn' = [fn EXCEPT !.pc = "loop", !.i = fn.i + fn.chunk]
    /\ UNCHANGED <<acc, last>>

\* i = N: the loop is left
UnrollLoopExit ==
    /\ fn.name = "unroll" /\ fn.pc = "loop"
    /\ fn.i = fn.N
    /\ fn' = [fn EXCEPT !.pc = "done"]
    /\ UNCHANGED <<acc, last>>

Next ==
    \/ UnrollLoopCall
    \/ UnrollCall
    \/ UnrollDescend
    \/ UnrollBase
    \/ UnrollUnwind
    \/ UnrollReturn
    \/ UnrollLoopExit
    \/ Atanh
    \/ Sinh
    \/ SinCall \/ SinRotate \/ SinReturn
    \/ HyperbolicScaleCall \/ HyperbolicScaleStep \/ HyperbolicScaleReturn
    \/ Wrap \/ FromReal \/ FromInt \/ Declare \/ Normalize
    \/ Add \/ Sub \/ AddInt \/ SubInt \/ Mul \/ Div \/ Halve \/ Neg

Spec == Init /\ [][Next]_vars

(***************************************************************************)
(* Sequences of operations on one object x (acc): constructions, the       *)
(* arithmetic operators and the compound assignments, each applied to the  *)
(* value the step before left.  fn.steps counts the steps; a sequence goes *)
(* on only while no policy event has fired.  A construction from a number  *)
(* does not read the object, so a sequence begins with it.                 *)
(***************************************************************************)
Sequence(steps) == [name |-> "sequence", pc |-> "run", steps |-> steps]

SeqInit ==
    \E F \in Formats :
        /\ fn = Sequence(0)
        /\ acc = Value(F, 0)
        /\ last = Step("init", NoValue, NoValue, IntMaxT, NoReal, Value(F, 0),
                       FALSE, FALSE)

\* the sequence may take another step
SeqRuns ==
    /\ fn.name = "sequence" /\ fn.steps < MaxSteps
    /\ ~last.ovf /\ ~last.unf

\* the step op has left the stored integer r.v in the format F
SeqStep(op, F, r) ==
    /\ acc' = Value(F, r.v)
    /\ last' = Step(op, acc, NoValue, IntMaxT, NoReal, Value(F, r.v),
                    r.ovf, r.unf)
    /\ fn' = Sequence(fn.steps + 1)

\* set_value_to(storage_type const _x)
set_value_to(F, x) ==
    Outcome(x, x < least_stored_integer(F) \/ x > largest_stored_integer(F),
            FALSE)

\* this_class const result(*this op _x); return set_value_to(result.value()):
\* r is the value of *this op _x
compound_assignment(F, r) ==
    LET result == converted_from(F, Value(r.fmt, r.v))
        set == set_value_to(F, result.v)
    IN  Outcome(set.v, r.ovf \/ result.ovf \/ set.ovf, r.unf \/ result.unf)

\* x = this_class::wrap(_val)
SeqWrap ==
    /\ SeqRuns /\ fn.steps = 0
    /\ \E F \in Formats, T \in HostTypes :
        \E val \in WrapInputs(F, T) : SeqStep("wrap", F, wrap(F, T, val))

\* x = this_class(_value) for a floating-point _value
SeqFromReal ==
    /\ SeqRuns /\ fn.steps = 0
    /\ \E F \in Formats :
        \E x \in RealInputs(F) :
            \E r \in calc_stored_integer_from_floating(F, x) :
                SeqStep("from_real", F, r)

\* x = this_class(_value) for an integral _value
SeqFromInt ==
    /\ SeqRuns /\ fn.steps = 0
    /\ \E F \in Formats :
        \E k \in -MaxInt..MaxInt :
            \E r \in calc_stored_integer_from_integral(F, k) :
                SeqStep("from_int", F, r)

\* fixed_point(fixed_point<T1, n1, f1, e1, Ps...> const&) applied to x
SeqNormalize ==
    /\ SeqRuns /\ fn.steps > 0
    /\ \E F \in Formats :
        /\ F # acc.fmt
        /\ ShiftDefined(F, acc.fmt)
        /\ SeqStep("normalize", F, normalize(F, acc))

\* x + y, x - y, x * y, x / y
SeqOperator ==
    /\ SeqRuns /\ fn.steps > 0
    /\ \E y \in RightOperands :
        \/ /\ ShiftDefined(acc.fmt, y.fmt)
           /\ \E r \in {operator_plus(acc, converted_from(acc.fmt, y)),
                         operator_minus(acc, converted_from(acc.fmt, y))} :
                SeqStep("add", r.fmt, r)
        \/ LET r == operator_times(acc, y) IN SeqStep("mul", r.fmt, r)
        \/ \E r \in operator_divide(acc, y) : SeqStep("div", r.fmt, r)

\* -x
SeqNegate ==
    /\ SeqRuns /\ fn.steps > 0
    /\ \E r \in operator_negate(acc) : SeqStep("neg", r.fmt, r)

\* x += y, x -= y, x *= y, x /= y
SeqAssign ==
    /\ SeqRuns /\ fn.steps > 0
    /\ \E y \in RightOperands :
        \E r \in ( IF ShiftDefined(acc.fmt, y.fmt)
                   THEN {operator_plus(acc, converted_from(acc.fmt, y)),
                         operator_minus(acc, converted_from(acc.fmt, y))}
                   ELSE {} )
                 \cup {operator_times(acc, y)} \cup operator_divide(acc, y) :
            /\ ShiftDefined(acc.fmt, r.fmt)
            /\ SeqStep("assign", acc.fmt, compound_assignment(acc.fmt, r))

SeqNext ==
    \/ SeqWrap \/ SeqFromReal \/ SeqFromInt \/ SeqNormalize
    \/ SeqOperator \/ SeqNegate \/ SeqAssign

SeqSpec == SeqInit /\ [][SeqNext]_vars

(***************************************************************************)
(* The claims.                                                             *)
(***************************************************************************)
InBounds(F, v) == least_stored_integer(F) <= v /\ v <= largest_stored_integer(F)

\* C1: wrap(v) stores v unchanged (whenever the storage type holds it) and
\* fires the overflow policy if and only if v is below least_stored_integer or
\* above largest_stored_integer of the format; for v within the bounds no
\* event fires and value() returns v
C1_WrapOverflowIffOutOfBounds ==
    last.op = "wrap" =>
        /\ last.ovf <=> ~InBounds(last.res.fmt, last.rhs.v)
        /\ ~last.unf
        /\ InBounds(last.res.fmt, last.rhs.v) => last.res.v = last.rhs.v
        /\ (TMin(storage_type(last.res.fmt)) <= last.rhs.v
               /\ last.rhs.v <= TMax(storage_type(last.res.fmt)))
               => last.res.v = last.rhs.v

\* an unsigned argument above the bounds of a signed format, and overflow fired
C1_Witness ==
    /\ last.op = "wrap"
    /\ ~last.T.s /\ last.res.fmt.s
    /\ last.rhs.v > largest_stored_integer(last.res.fmt)
    /\ last.ovf

Abs(a) == IF a < 0 THEN -a ELSE a

Sign(a) == IF a < 0 THEN -1 ELSE IF a > 0 THEN 1 ELSE 0

InRange(t, v) == TMin(t) <= v /\ v <= TMax(t)

\* x * 2^(f+e) rounded to the nearest integer, exact halves away from zero
RoundHalfAway(F, x) ==
    LET p == F.f + F.e - x.k
    IN  Sign(x.m) * (IF p >= 0 THEN Abs(x.m) * Pow2(p)
                               ELSE (2 * Abs(x.m) + Pow2(-p)) \div Pow2(1 - p))

C3_RealOverflowInStorageRange ==
    (/\ last.op = "from_real"
     /\ ~InBounds(last.res.fmt, RoundHalfAway(last.res.fmt, last.x))
     /\ InRange(storage_type(last.res.fmt), RoundHalfAway(last.res.fmt, last.x)))
        => last.ovf

\* k * 2^(f+e) is an integer
ShiftsToInteger(F, k) == F.f + F.e >= 0 \/ k % Pow2(-(F.f + F.e)) = 0

ShiftedInteger(F, k) ==
    IF F.f + F.e >= 0 THEN k * Pow2(F.f + F.e) ELSE k \div Pow2(-(F.f + F.e))

\* C4: construction from an integer k stores k * 2^(f+e), as construction from
\* the real k does, for every e for which that is an integer within the bounds
C4_IntegerShiftedIntoPlace ==
    (/\ last.op = "from_int"
     /\ ShiftsToInteger(last.res.fmt, last.k)
     /\ InBounds(last.res.fmt, ShiftedInteger(last.res.fmt, last.k)))
        => /\ last.res.v = ShiftedInteger(last.res.fmt, last.k)
           /\ last.res.v = rounded(last.res.fmt, Real(last.k, 0))

\* d = (f + e) - (f1 + e1) of a normalisation from F1 into F
ShiftOf(F, F1) == (F.f + F.e) - (F1.f + F1.e)

\* a in the format Fa and b in the format Fb represent the same real
SameReal(a, Fa, b, Fb) ==
    IF ShiftOf(Fa, Fb) >= 0 THEN a = b * Pow2(ShiftOf(Fa, Fb))
                            ELSE a * Pow2(ShiftOf(Fb, Fa)) = b

\* C5: normalisation from (f1, e1) into (f, e) shifts the stored integer left
\* by d = (f + e) - (f1 + e1) when d >= 0 and right by -d when d < 0, the
\* real value is unchanged whenever no bits are lost, and the underflow policy
\* fires exactly when the input is non-zero and the right-shifted result is zero
C5_NormalizeShifts ==
    last.op = "normalize" =>
        LET F == last.res.fmt
            v == last.lhs.v
            d == ShiftOf(F, last.lhs.fmt)
        IN  /\ d >= 0 => last.res.v = Conv(storage_type(F), v * Pow2(d))
            /\ d < 0 => last.res.v = Conv(storage_type(F), v \div Pow2(-d))
            /\ (d >= 0 /\ InRange(storage_type(F), v * Pow2(d)))
                   => SameReal(last.res.v, F, v, last.lhs.fmt)
            /\ (d < 0 /\ v % Pow2(-d) = 0 /\ InRange(storage_type(F), v \div Pow2(-d)))
                   => SameReal(last.res.v, F, v, last.lhs.fmt)
            /\ last.unf <=> (d < 0 /\ v # 0 /\ last.res.v = 0)

\* a non-zero input was shifted right to zero, and underflow fired
C5_Witness ==
    /\ last.op = "normalize"
    /\ ShiftOf(last.res.fmt, last.lhs.fmt) < 0
    /\ last.lhs.v > 0
    /\ last.res.v = 0
    /\ last.unf

\* C6: normalisation into a finer format (the left shift) fires the overflow
\* policy whenever the shifted stored integer is outside the stored-integer
\* bounds of the destination, also when n + f is below the digits of the
\* storage type and the storage word still holds the shifted value (stated
\* for that case)
C6_NormalizeLeftOverflow ==
    (/\ last.op = "normalize"
     /\ ShiftOf(last.res.fmt, last.lhs.fmt) >= 0
     /\ InBounds(last.lhs.fmt, last.lhs.v)
     /\ InRange(storage_type(last.res.fmt),
                last.lhs.v * Pow2(ShiftOf(last.res.fmt, last.lhs.fmt)))
     /\ ~InBounds(last.res.fmt,
                  last.lhs.v * Pow2(ShiftOf(last.res.fmt, last.lhs.fmt))))
        => last.ovf

\* sign(v) * floor(|v| / 2^s)
TowardZero(v, s) == Sign(v) * (Abs(v) \div Pow2(s))

\* C7: every shift-based rescaling rounds toward zero: normalisation to a
\* coarser format by s bits and halving by a 1-bit shift give
\* sign(v) * floor(|v| / 2^s), for negative v too
C7_ShiftsRoundTowardZero ==
    /\ (last.op = "normalize" /\ ShiftOf(last.res.fmt, last.lhs.fmt) < 0)
           => last.res.v = Conv(storage_type(last.res.fmt),
                                TowardZero(last.lhs.v,
                                           -ShiftOf(last.res.fmt, last.lhs.fmt)))
    /\ last.op = "halve" => last.res.v = TowardZero(last.lhs.v, 1)

\* the right operand of the last addition or subtraction, converted to the
\* format of the left operand
ConvertedOperand ==
    IF last.op \in {"add", "sub"}
    THEN converted_from(last.lhs.fmt, last.rhs).v
    ELSE (CHOOSE c \in calc_stored_integer_from_integral(last.lhs.fmt, last.k) : TRUE).v

\* C8: x + y and x - y convert y to the format of x and return a value of the
\* sum-promoted format whose stored integer is value(x) + value(converted y)
\* (resp. minus) computed in the promoted storage type; x + 0 = x exactly for
\* every representable x, with no policy event
C8_SumInPromotedType ==
    /\ last.op \in {"add", "add_int"} =>
        /\ last.res.fmt = sum_promoted_type(last.lhs.fmt)
        /\ last.res.v = Conv(storage_type(last.res.fmt), last.lhs.v + ConvertedOperand)
        /\ InRange(storage_type(last.res.fmt), last.lhs.v + ConvertedOperand)
               => last.res.v = last.lhs.v + ConvertedOperand
    /\ last.op \in {"sub", "sub_int"} =>
        /\ last.res.fmt = sum_promoted_type(last.lhs.fmt)
        /\ last.res.v = Conv(storage_type(last.res.fmt), last.lhs.v - ConvertedOperand)
        /\ InRange(storage_type(last.res.fmt), last.lhs.v - ConvertedOperand)
               => last.res.v = last.lhs.v - ConvertedOperand
    /\ (last.op = "add_int" /\ last.k = 0 /\ InBounds(last.lhs.fmt, last.lhs.v)) =>
        /\ last.res.v = last.lhs.v
        /\ SameReal(last.res.v, last.res.fmt, last.lhs.v, last.lhs.fmt)
        /\ ~last.ovf /\ ~last.unf

\* a right operand of another scale was converted and added in the promoted
\* format, with no policy event
C8_Witness ==
    /\ last.op = "add"
    /\ ShiftOf(last.lhs.fmt, last.rhs.fmt) # 0
    /\ last.res.fmt # last.lhs.fmt
    /\ last.lhs.v # 0 /\ ConvertedOperand # 0
    /\ ConvertedOperand # last.rhs.v
    /\ last.res.v = last.lhs.v + ConvertedOperand
    /\ ~last.ovf /\ ~last.unf

\* C9: x * y is, when the product format is expandable, the full product
\* value(x) * value(y) computed in the widened storage type; when it is closed
\* the result keeps the format of x and is (value(x) * value(y)) >> f_B
C9_Product ==
    last.op = "mul" =>
        LET A == last.lhs.fmt
            B == last.rhs.fmt
            t == storage_type(last.res.fmt)
            product == Conv(t, Conv(t, last.lhs.v) * Conv(t, last.rhs.v))
        IN  IF HostHolds(A.s \/ B.s, A.n + B.n + A.f + B.f)
            THEN /\ last.res.fmt.n = A.n + B.n
                 /\ last.res.fmt.f = A.f + B.f
                 /\ last.res.fmt.e = A.e + B.e
                 /\ last.res.v = product
                 /\ InRange(t, last.lhs.v * last.rhs.v)
                        => last.res.v = last.lhs.v * last.rhs.v
            ELSE /\ last.res.fmt = A
                 /\ last.res.v = product \div Pow2(B.f)
                 /\ InRange(t, last.lhs.v * last.rhs.v)
                        => last.res.v = (last.lhs.v * last.rhs.v) \div Pow2(B.f)

\* a closed product whose low f_B bits were shifted out
C9_Witness ==
    /\ last.op = "mul"
    /\ last.res.fmt = last.lhs.fmt
    /\ ~mult_is_expandable(last.lhs.fmt, last.rhs.fmt)
    /\ last.rhs.fmt.f > 0
    /\ last.rhs.fmt.f # last.lhs.fmt.f
    /\ last.lhs.v * last.rhs.v > 0
    /\ InRange(storage_type(last.lhs.fmt), last.lhs.v * last.rhs.v)
    /\ last.res.v = (last.lhs.v * last.rhs.v) \div Pow2(last.rhs.fmt.f)

\* C10: x / y with value(y) # 0 is (value(x) << (n_B + f_B)) / value(y), the
\* shift and the division carried out in the promoted storage type (stated
\* where both are defined there: the shift count is below the width of the
\* type, the divisor is not zero in it, and it holds the quotient)
C10_Quotient ==
    (last.op = "div" /\ last.rhs.v # 0) =>
        LET t == quotient_word_type(last.lhs.fmt, last.rhs.fmt)
            bits == last.rhs.fmt.n + last.rhs.fmt.f
            shifted == Conv(t, Conv(t, last.lhs.v) * Pow2(bits))
            divisor == Conv(t, last.rhs.v)
        IN  /\ (bits < t.w /\ divisor # 0 /\ InRange(t, CDiv(shifted, divisor)))
                => last.res.v = CDiv(shifted, divisor)
            /\ (/\ ~quotient_is_closed(last.lhs.fmt, last.rhs.fmt)
                /\ InBounds(last.lhs.fmt, last.lhs.v)
                /\ t.s \/ last.rhs.v > 0
                /\ InRange(t, CDiv(last.lhs.v * Pow2(bits), last.rhs.v)))
                => last.res.v = CDiv(last.lhs.v * Pow2(bits), last.rhs.v)

\* a negative numerator, shifted by n_B + f_B bits and divided with a remainder
C10_Witness ==
    /\ last.op = "div"
    /\ ~quotient_is_closed(last.lhs.fmt, last.rhs.fmt)
    /\ last.lhs.v < 0 /\ last.rhs.v > 1
    /\ last.rhs.fmt.n > 0
    /\ (last.lhs.v * Pow2(last.rhs.fmt.n + last.rhs.fmt.f)) % last.rhs.v # 0
    /\ last.res.v = CDiv(last.lhs.v * Pow2(last.rhs.fmt.n + last.rhs.fmt.f), last.rhs.v)

\* the real q * 2^-(f_R + e_R) is within 2^-(f_R + e_R) of the quotient of the
\* reals a * 2^-(f_A + e_A) and b * 2^-(f_B + e_B) (both sides multiplied by
\* |b| and by the powers of two)
WithinOneUlp(a, A, b, B, q, R) ==
    LET d == (B.f + B.e) - (A.f + A.e) + (R.f + R.e)
    IN  IF d >= 0 THEN Abs(q * b - a * Pow2(d)) <= Abs(b)
                  ELSE Abs(q * b * Pow2(-d) - a) <= Abs(b) * Pow2(-d)

\* C11: division is value-correct in the format it returns: for B # 0 the
\* real represented by A / B in the quotient format equals real(A) / real(B)
\* to within one unit in the last place of that format (stated for operands
\* within their bounds, a word type of the division that holds the divisor,
\* the shifted numerator and the quotient, and no overflow event)
C11_DivisionValueCorrect ==
    (/\ last.op = "div"
     /\ last.rhs.v # 0
     /\ InBounds(last.lhs.fmt, last.lhs.v)
     /\ InRange(quotient_word_type(last.lhs.fmt, last.rhs.fmt), last.rhs.v)
     /\ InRange(quotient_word_type(last.lhs.fmt, last.rhs.fmt),
                last.lhs.v * Pow2(number_of_significant_bits(last.rhs.fmt)))
     /\ InRange(quotient_word_type(last.lhs.fmt, last.rhs.fmt),
                CDiv(last.lhs.v * Pow2(number_of_significant_bits(last.rhs.fmt)),
                     last.rhs.v))
     /\ ~last.ovf)
        => WithinOneUlp(last.lhs.v, last.lhs.fmt, last.rhs.v, last.rhs.fmt,
                        last.res.v, last.res.fmt)

\* the narrowest host integer width of at least `bits` bits
SmallestWidth(bits) ==
    CHOOSE w \in HostWidths :
        w >= bits /\ \A u \in HostWidths : u >= bits => w <= u

\* C12: the quotient type is expandable exactly when a host integer of the
\* result's signedness has n_A + n_B digits, n_A and n_B counting all the
\* significant bits of the operands as quotient<A, B> counts them; then it has
\* n_A + n_B significant bits, f_A + (n_B - f_B) of them fractional, in the
\* smallest host type that holds them; otherwise it is the left operand's type
C12_QuotientType ==
    last.op = "div" =>
        LET A == last.lhs.fmt
            B == last.rhs.fmt
            R == last.res.fmt
            n1 == A.n + A.f
            n2 == B.n + B.f
        IN  IF n1 + n2 <= Digits(HostType(R.s, IntMaxBits))
            THEN /\ R.n + R.f = n1 + n2
                 /\ R.f = A.f + (n2 - B.f)
                 /\ R.w = SmallestWidth(n1 + n2 + (IF R.s THEN 1 ELSE 0))
            ELSE R = A

\* an expandable quotient that takes every digit of the widest host integer,
\* in a wider storage type than the left operand's
C12_Witness ==
    /\ last.op = "div"
    /\ last.lhs.fmt.n + last.lhs.fmt.f + last.rhs.fmt.n + last.rhs.fmt.f
           = Digits(HostType(last.lhs.fmt.s, IntMaxBits))
    /\ last.rhs.fmt.f > 0
    /\ last.res.fmt.w > last.lhs.fmt.w
    /\ last.res.fmt.f = last.lhs.fmt.f + last.rhs.fmt.n

\* C13: the result type of a binary operation is signed if either operand is
\* signed and unsigned only if both are unsigned; in particular an unsigned
\* left operand divided by a signed right operand gives a signed storage type
\* (stated for the quotient)
C13_SignedIfEitherSigned ==
    last.op = "div" =>
        (last.res.fmt.s <=> (last.lhs.fmt.s \/ last.rhs.fmt.s))

\* C14: unary negation keeps the operand's format and -(-x) = x for every
\* representable x other than the signed minimum, with no overflow event; at
\* the signed minimum (stored integer least_stored_integer) unary - fires the
\* overflow policy
C14_NegationInvolution ==
    last.op = "neg" =>
        /\ last.res.fmt = last.lhs.fmt
        /\ (last.lhs.fmt.s /\ last.lhs.v = least_stored_integer(last.lhs.fmt))
               => last.ovf
        /\ (/\ InBounds(last.lhs.fmt, last.lhs.v)
            /\ ~(last.lhs.fmt.s /\ last.lhs.v = least_stored_integer(last.lhs.fmt)))
               => /\ ~last.ovf
                  /\ InBounds(last.res.fmt, last.res.v)
        /\ (/\ last.k = 2
            /\ InBounds(last.rhs.fmt, last.rhs.v)
            /\ ~(last.rhs.fmt.s /\ last.rhs.v = least_stored_integer(last.rhs.fmt)))
               => last.res = last.rhs

\* an unsigned x, negated twice, is x again and its negation was another value
C14_Witness ==
    /\ last.op = "neg" /\ last.k = 2
    /\ ~last.rhs.fmt.s
    /\ last.rhs.v > 0
    /\ last.lhs.v # last.rhs.v
    /\ last.res = last.rhs
    /\ ~last.ovf

RECURSIVE InRepeatedSequence(_, _)
InRepeatedSequence(i, r) ==
    IF r > i THEN FALSE ELSE r = i \/ InRepeatedSequence(i, 3 * r + 1)

\* C17: hyperbolic_scale_with_repeated_iterations(_n) multiplies the factor
\* sqrt(1 - 2^(-2i)) in once for every index i = 1 .. _n - 1 it visits and a
\* second time for every visited index of the sequence 4, 13, 40, ...: those
\* are counted exactly twice and every other visited index exactly once
C17_RepeatedIndicesTwice ==
    (fn.name = "hyperbolic_scale" /\ fn.pc = "done") =>
        \A i \in 1..MaxScaleN :
            fn.scale[i] = IF i >= fn.n THEN 0
                          ELSE IF InRepeatedSequence(i, 4) THEN 2 ELSE 1

\* C16: for every representable angle of sin, positive or negative, the
\* range-reduced argument handed to the CORDIC loop lies in [-pi/2, pi/2]
\* (between -CONST_PI_2 and CONST_PI_2 of the format)
C16_ReducedArgumentInRange ==
    fn.name = "sin" =>
        /\ -CONST_PI_2(SinFormat) <= fn.arg
        /\ fn.arg <= CONST_PI_2(SinFormat)

\* atan_lut[i] of the format F: atan(2^-i) to the nearest stored integer
AtanLut(F, i) == RoundHalfAway(F, atan_pow2(i))

\* the start state of the loop: (x, y, z) = (1 / K_circ, 0, arg)
SinLoopStart ==
    (fn.name = "sin" /\ fn.i = 0) =>
        /\ fn.x = RoundHalfAway(SinFormat, inverse_circular_scale(SinFormat.f))
        /\ fn.y = 0
        /\ fn.z = fn.arg

\* a step of the loop is iteration i < f, which reads the state before it;
\* the step that leaves the loop is taken at i = f and returns sign * y
SinLoopStep ==
    (fn.name = "sin" /\ fn.pc = "loop") =>
        IF fn'.pc = "loop"
        THEN LET sigma == IF fn.z > 0 THEN 1 ELSE -1
             IN  /\ fn.i < SinFormat.f
                 /\ fn'.i = fn.i + 1
                 /\ fn'.x = fn.x - sigma * Shr(fn.y, fn.i)
                 /\ fn'.y = fn.y + sigma * Shr(fn.x, fn.i)
                 /\ fn'.z = fn.z - sigma * AtanLut(SinFormat, fn.i)
        ELSE /\ fn.i = SinFormat.f
             /\ fn' = [fn EXCEPT !.pc = "done"]
             /\ acc'.v = fn.sign * fn.y

\* C20: sin runs exactly f rotation-mode iterations i = 0 .. f - 1 from the
\* start state (x, y, z) = (1 / K_circ, 0, arg) and then returns; iteration i
\* takes sigma = +1 if z > 0 and -1 otherwise and sets x' = x - sigma * (y >> i),
\* y' = y + sigma * (x >> i), z' = z - sigma * atan_lut[i], all three from the
\* x, y, z before the iteration; the result is sign * y of the final state
C20_SinRotationLoop == []SinLoopStart /\ [][SinLoopStep]_vars

\* a call that has returned -y after f iterations, y having become positive
C20_Witness ==
    /\ fn.name = "sin" /\ fn.pc = "done"
    /\ fn.i = SinFormat.f
    /\ fn.val > 0
    /\ fn.sign = -1
    /\ fn.y > 0
    /\ fn.x # fn.y
    /\ acc.v = -fn.y

\* C19: sinh(x) = (exp(x) - exp(-x)) / 2: the two exponentials are evaluated
\* at x and at -x themselves, their difference is taken, and the halving is a
\* one-bit right shift of the result's stored integer
C19_SinhOfExponentials ==
    fn.name = "sinh" =>
        /\ fn.exp_of = <<fn.val, -fn.val>>
        /\ acc.v = Shr(fn.exp[1] - fn.exp[2], 1)

\* the stored integer of 1.0 in the format F
One(F) == Pow2(F.f + F.e)

\* C18: atanh(x) raises a domain error for every argument with |x| >= 1,
\* x = +1 and x = -1 included, whatever the policies (its argument check
\* rejects them); for |x| < 1 it returns half of log(1 + x) - log(1 - x)
C18_AtanhDomain ==
    fn.name = "atanh" =>
        /\ Abs(fn.val) >= One(fn.fmt) => fn.domain
        /\ Abs(fn.val) < One(fn.fmt) =>
               /\ ~fn.domain /\ ~fn.log_domain
               /\ fn.log_of = <<One(fn.fmt) + fn.val, One(fn.fmt) - fn.val>>
               /\ acc.v = Shr(fn.log[1] - fn.log[2], 1)

\* the sequence a, a + 1, ..., b
Upto(a, b) == [k \in 1..(b - a + 1) |-> a + k - 1]

C22_StoredIntegerInBounds ==
    (fn.name = "sequence" /\ fn.steps > 0 /\ ~last.ovf /\ ~last.unf) =>
        InBounds(acc.fmt, acc.v)

\* shifting v left by `bits` in the type t and back right gives v again
LosslessShift(t, v, bits) == Shr(Conv(t, Conv(t, v) * Pow2(bits)), bits) = v

\* C23: in a closed division x / y the extra overflow check fires exactly
\* when the left shift of the numerator's stored integer by n_B + f_B bits
\* loses bits (the shift back does not give value(x)); it does not fire when
\* the shift is lossless, whatever the denominator (stated where the shift
\* is defined, and for the second part where neither the test of the
\* division nor wrap has a reason to fire)
C23_ClosedDivisionCheck ==
    LET t == quotient_word_type(last.lhs.fmt, last.rhs.fmt)
        bits == number_of_significant_bits(last.rhs.fmt)
    IN  (/\ last.op = "div"
         /\ quotient_is_closed(last.lhs.fmt, last.rhs.fmt)
         /\ bits < t.w) =>
            /\ ~LosslessShift(t, last.lhs.v, bits) => last.ovf
            /\ (/\ LosslessShift(t, last.lhs.v, bits)
                /\ last.rhs.v # 0
                /\ ~does_division_overflow(last.lhs.fmt, last.lhs.v,
                                           last.rhs.fmt, last.rhs.v)
                /\ InRange(t, last.rhs.v)
                /\ InBounds(last.res.fmt,
                            CDiv(last.lhs.v * Pow2(bits), last.rhs.v)))
                   => ~last.ovf

====
